---- MODULE Spec2Model ----
(***************************************************************************)
(* A model of the two "operational resilience" components of               *)
(* discord-js-helpers:                                                     *)
(*   - wrapRest / retryWithBackoff  (src/src/rest/index.ts, and the older  *)
(*     untyped variant src/unnamed/part_002)                               *)
(*   - memoryCache                  (src/src/cache/index.ts)               *)
(*                                                                         *)
(* JavaScript values are encoded as follows.                               *)
(*   optional value   : <<>> (undefined / omitted) or <<x>>                *)
(*   thrown value     : [t, code] where t is "object", "string", "null"    *)
(*                      or "undefined" (what was thrown) and code is the   *)
(*                      value of its .code property:                       *)
(*                        <<>>              no code property               *)
(*                        <<"number", n>>   the number n                   *)
(*                        <<"string", n>>   a numeric string such as "404" *)
(*   time             : integer milliseconds (Date.now())                  *)
(***************************************************************************)
EXTENDS Integers, Sequences, FiniteSets, TLC

(***************************************************************************)
(* Bounds of the model.                                                    *)
(***************************************************************************)
\* options.maxRetries ranges over 0..MaxRetriesBound (and "omitted")
MaxRetriesBound == 2
\* Math.random() is drawn from { j / JitterSteps : j \in 0..JitterSteps-1 }
JitterSteps == 3
\* Date.now() when memoryCache() is called
StartClock == 2000
\* the clock advances at most MaxTicks times
MaxTicks == 2

\* how deep the error handler of an interaction may re-enter itself
MaxDepth == 3

\* how many interactions the command handler is given, one after the other
MaxInteractions == 2

(***************************************************************************)
(* Program constants.                                                      *)
(***************************************************************************)
DefaultMaxRetries == 3
DefaultBaseDelayMs == 1000
JitterRangeMs == 250
ClientErrorLow == 400
ClientErrorHigh == 500
RateLimited == 429
SweepIntervalMs == 300000
MsPerSecond == 1000

None == <<>>
Some(x) == <<x>>

VARIABLES
    \* ---- wrapRest: the closure of one wrapped transport
    variant,        \* "typed": src/src/rest/index.ts, "loose": src/unnamed/part_002
    rest,           \* the transport object after wrapRest: [id, slots]
    handle,         \* the reference wrapRest returned
    maxRetries,     \* closure constant of wrapRest
    baseDelayMs,    \* closure constant of wrapRest
    \* ---- one call of a wrapped method (retryWithBackoff)
    method,         \* the method called, "" before the call
    args,           \* <<>> or <<<<route, options>>>>: the arguments of the call
    pc,             \* "idle" | "loop" | "awaiting" | "sleeping" | "through" |
                    \* "returned" | "thrown"
    attempt,        \* the loop variable
    lastError,      \* the local lastError: <<>> or <<e>>
    calls,          \* number of invocations of fn so far
    history,        \* what each invocation of fn did, in order
    invoked,        \* the invocations of the transport's original methods, in
                    \* order: [method, route, options]
    outcome,        \* what the call delivered to its caller
    delay,          \* <<>> or <<d>>: the delay handed to setTimeout by the last retry
    sleeps,         \* number of backoff sleeps started
    warns,          \* number of logger.warn lines
    errors,         \* number of logger.error lines
    lastLog,        \* the last log line written
    \* ---- memoryCache
    store,          \* the Map: key -> <<>> (absent) or <<[value, expires]>>
    now,            \* Date.now()
    nextSweep,      \* when the setInterval callback is next due
    ticks,          \* number of clock advances so far (bounded)
    lastSet,        \* per key, the last set call since the key was last deleted by
                    \* del: <<>> or <<[value, ttl, at, expires]>>, its arguments,
                    \* the clock when it ran and the expiry it stored
    getResult,      \* <<>> or <<[key, result]>>: what the get that has just run
                    \* resolved with (result <<>> is null)
    lastOp,         \* the cache step that has just run: [op, key, was, removed],
                    \* with was the kind of the entry of key when the step started
                    \* and removed the keys whose entries the step deleted
    released,       \* the caller has dropped its reference to the adapter
    refStore,       \* the Map of a second memoryCache that receives the same
                    \* get, set and del calls at the same clock values and
                    \* whose setInterval callback never runs
    refResult,      \* <<>> or <<r>>: what the get that has just run resolved
                    \* with on that second cache
    \* ---- a second call of a wrapped method, in progress at the same time
    peer,           \* its locals: [method, args, pc, attempt, lastError, calls,
                    \* history, outcome, delay, sleeps]
    \* ---- one call on a transport that wrapRest has wrapped twice
    nest,           \* [m1, m2, pc, inner, outer, lastInner, lastOuter, originals,
                    \* innerCalls, seen, warns, errors, outcome]
    \* ---- one interaction after installInteractionErrorHandler
    ix,             \* [wrapped, acked, pc, method, current, stack, sends, logged,
                    \* sendFailures, message, outcome]
    \* ---- one interaction given to the handler createCommandHandler returned
    cmd             \* [pc, name, guardResult, runs, acked, attempts, delivered,
                    \* logged, handled]; all but the last two are of the
                    \* interaction being handled

restVars == <<variant, rest, handle, maxRetries, baseDelayMs, method, args, pc,
              attempt, lastError, calls, history, invoked, outcome, delay, sleeps,
              warns, errors, lastLog>>

cacheVars == <<store, now, nextSweep, ticks, lastSet, getResult, lastOp, released,
               refStore, refResult>>

\* the components modelled besides wrapRest's single call and memoryCache
auxVars == <<nest, ix, cmd>>

vars == <<restVars, cacheVars, peer, auxVars>>

\* what the steps of one component leave alone
restFrame == <<cacheVars, peer, auxVars>>
cacheFrame == <<restVars, peer, auxVars>>
peerFrame == <<cacheVars, auxVars>>
nestFrame == <<restVars, cacheVars, peer, ix, cmd>>
ixFrame == <<restVars, cacheVars, peer, nest, cmd>>
cmdFrame == <<restVars, cacheVars, peer, nest, ix>>

(***************************************************************************)
(* Values of the REST model.                                               *)
(***************************************************************************)
Variants == {"typed", "loose"}
Methods == {"POST", "PATCH", "DELETE"}

\* the methods of the transport: the three above, and two of the others
AllMethods == Methods \cup {"GET", "PUT"}

\* the (route, options) argument pairs of a call; options may be omitted
CallArgs == {<<"/a", None>>, <<"/b", Some("body")>>}

\* the transport handed to wrapRest
Transport == [id |-> "rest", slots |-> [m \in AllMethods |-> "original"]]

\* values the underlying transport method can resolve with
Responses == {"r1", "r2"}

ObjErr(code) == [t |-> "object", code |-> code]
NumErr(n) == ObjErr(<<"number", n>>)

\* values the underlying transport method can reject with
Codes == {None, <<"string", 404>>,
          <<"number", 399>>, <<"number", 400>>, <<"number", 404>>,
          <<"number", 429>>, <<"number", 499>>, <<"number", 500>>}
Thrown == {ObjErr(c) : c \in Codes}
            \cup {[t |-> "string", code |-> None],
                  [t |-> "null", code |-> None],
                  [t |-> "undefined", code |-> None]}

\* the TypeError the JavaScript runtime raises for a property read of
\* null or undefined; never a member of Thrown
TypeErrorValue == [t |-> "TypeError", code |-> None]

NoError == [t |-> "none", code |-> None]
FnOk(v) == [ok |-> TRUE, val |-> v, err |-> NoError]
FnFail(e) == [ok |-> FALSE, val |-> "", err |-> e]

NoOutcome == [kind |-> "none", val |-> "", err |-> NoError]
Returned(v) == [kind |-> "returned", val |-> v, err |-> NoError]
Threw(e) == [kind |-> "thrown", val |-> "", err |-> e]

NoLog == [level |-> "none", method |-> "", attempt |-> 0, total |-> 0,
          retries |-> 0, delay |-> 0]

(***************************************************************************)
(* wrapRest: the option defaults (destructuring defaults apply to an       *)
(* omitted or undefined option only).                                      *)
(***************************************************************************)
OptionOr(opt, default) == IF opt = None THEN default ELSE opt[1]

RestOptions == [maxRetries : {None} \cup {Some(n) : n \in 0..MaxRetriesBound},
                baseDelayMs : {None, Some(100)}]

(***************************************************************************)
(* retryWithBackoff: classification of a caught value.                     *)
(***************************************************************************)
\* error.code on null or undefined raises a TypeError
PropertyReadThrows(e) == e.t \in {"null", "undefined"}

IsClientErrorTypedAbove(e) ==
    /\ Len(e.code) = 2
    /\ e.code[1] = "number"
    /\ e.code[2] > ClientErrorLow
    /\ e.code[2] < ClientErrorHigh
    /\ e.code[2] # RateLimited

IsClientErrorTypedNo429(e) ==
    /\ Len(e.code) = 2
    /\ e.code[1] = "number"
    /\ e.code[2] >= ClientErrorLow
    /\ e.code[2] < ClientErrorHigh

\* src/src/rest/index.ts:95
\*   typeof errorObj.code === 'number' && code >= 400 && code < 500 && code !== 429
IsClientErrorTyped(e) ==
    /\ Len(e.code) = 2
    /\ e.code[1] = "number"
    /\ e.code[2] >= ClientErrorLow
    /\ e.code[2] < ClientErrorHigh
    /\ e.code[2] # RateLimited

\* src/unnamed/part_002:94
\*   error.code >= 400 && error.code < 500 && error.code !== 429
\* >= and < coerce a numeric string to a number (any other string, and
\* undefined, to NaN, for which both are false); !== compares without coercion,
\* so that a string never equals 429
IsClientErrorLoose(e) ==
    /\ Len(e.code) = 2
    /\ e.code[2] >= ClientErrorLow
    /\ e.code[2] < ClientErrorHigh
    /\ ~(e.code[1] = "number" /\ e.code[2] = RateLimited)

IsClientError(v, e) ==
    IF v = "typed" THEN IsClientErrorTyped(e) ELSE IsClientErrorLoose(e)

\* what the catch block does with a caught value, before looking at the attempt
\*   "crash"     the classification itself throws a TypeError
\*   "fatal"     throw error  (client error)
\*   "retryable" anything else
Classify(v, e) ==
    IF PropertyReadThrows(e) THEN "crash"
    ELSE IF IsClientError(v, e) THEN "fatal"
    ELSE "retryable"

(***************************************************************************)
(* retryWithBackoff: the delay.                                            *)
(*   baseDelayMs * Math.pow(2, attempt) + Math.random() * 250              *)
(* with Math.random() = j / JitterSteps; the fraction of a millisecond is  *)
(* dropped from the delay the timer is set with, while the warn line       *)
(* prints Math.round(delay): the nearest millisecond, a half rounded up.   *)
(***************************************************************************)
Jitter(j) == (j * JitterRangeMs) \div JitterSteps

RoundedJitter(j) == (2 * j * JitterRangeMs + JitterSteps) \div (2 * JitterSteps)

BackoffLinear(base, n) == base * (n + 1)

Backoff(base, n) == base * 2^n

Delay(base, n, j) == Backoff(base, n) + Jitter(j)

\* Math.round(delay), as printed by the warn line
RoundedDelay(base, n, j) == Backoff(base, n) + RoundedJitter(j)

(***************************************************************************)
(* retryWithBackoff: the loop.                                             *)
(*   for (let attempt = 0; attempt <= maxRetries; attempt++)               *)
(***************************************************************************)
LoopCondition(a, m) == a <= m

NextAttemptStuck(a) == a

NextAttempt(a) == a + 1

ExhaustedEarly(a, m) == a + 1 = m

\* if (attempt === maxRetries)
Exhausted(a, m) == a = m

(***************************************************************************)
(* wrapRest: rest.post, rest.patch and rest.delete are assigned retrying   *)
(* closures on the object itself, and the object is returned.              *)
(***************************************************************************)
Replaced(t) ==
    [t EXCEPT !.slots = [m \in AllMethods |->
                            IF m \in Methods THEN "retrying" ELSE t.slots[m]]]

wrapRest(t) == [object |-> Replaced(t), returned |-> t.id]

ForwardNoOptions(m, a) == [method |-> m, route |-> a[1], options |-> None]

\* originalPost(route, options) and its siblings: what the transport's
\* original method of a call receives
Forward(m, a) == [method |-> m, route |-> a[1], options |-> a[2]]

(***************************************************************************)
(* Init of the REST model: wrapRest(rest, options) has run.                *)
(***************************************************************************)
RestIdle(v, options) ==
    /\ variant = v
    /\ rest = wrapRest(Transport).object
    /\ handle = wrapRest(Transport).returned
    /\ args = None
    /\ invoked = <<>>
    /\ maxRetries = OptionOr(options.maxRetries, DefaultMaxRetries)
    /\ baseDelayMs = OptionOr(options.baseDelayMs, DefaultBaseDelayMs)
    /\ method = ""
    /\ pc = "idle"
    /\ attempt = 0
    /\ lastError = None
    /\ calls = 0
    /\ history = <<>>
    /\ outcome = NoOutcome
    /\ delay = None
    /\ sleeps = 0
    /\ warns = 0
    /\ errors = 0
    /\ lastLog = NoLog

RestInit == \E v \in Variants, options \in RestOptions : RestIdle(v, options)

\* no second call
PeerIdle ==
    [method |-> "", args |-> None, pc |-> "idle", attempt |-> 0,
     lastError |-> None, calls |-> 0, history |-> <<>>, outcome |-> NoOutcome,
     delay |-> None, sleeps |-> 0]

(***************************************************************************)
(* rest.post / rest.patch / rest.delete of the wrapped transport: enter    *)
(* retryWithBackoff with attempt = 0.                                      *)
(***************************************************************************)
CallWrapped(m, a) ==
    /\ pc = "idle"
    /\ rest.slots[m] = "retrying"
    /\ method' = m
    /\ args' = Some(a)
    /\ pc' = "loop"
    /\ attempt' = 0
    /\ lastError' = None
    /\ UNCHANGED <<variant, rest, handle, maxRetries, baseDelayMs, calls, history,
                   invoked, outcome, delay, sleeps, warns, errors, lastLog>>
    /\ UNCHANGED restFrame

(***************************************************************************)
(* Any other method of the transport (rest.get, rest.put): wrapRest did    *)
(* not touch it, the call is the original method's own call.               *)
(***************************************************************************)
CallThrough(m, a) ==
    /\ pc = "idle"
    /\ rest.slots[m] = "original"
    /\ method' = m
    /\ args' = Some(a)
    /\ invoked' = Append(invoked, Forward(m, a))
    /\ pc' = "through"
    /\ UNCHANGED <<variant, rest, handle, maxRetries, baseDelayMs, attempt,
                   lastError, calls, history, outcome, delay, sleeps, warns,
                   errors, lastLog>>
    /\ UNCHANGED restFrame

ThroughResolves(v) ==
    /\ pc = "through"
    /\ outcome' = Returned(v)
    /\ pc' = "returned"
    /\ UNCHANGED <<variant, rest, handle, maxRetries, baseDelayMs, method, args,
                   attempt, lastError, calls, history, invoked, delay, sleeps,
                   warns, errors, lastLog>>
    /\ UNCHANGED restFrame

ThroughRejects(e) ==
    /\ pc = "through"
    /\ outcome' = Threw(e)
    /\ pc' = "thrown"
    /\ UNCHANGED <<variant, rest, handle, maxRetries, baseDelayMs, method, args,
                   attempt, lastError, calls, history, invoked, delay, sleeps,
                   warns, errors, lastLog>>
    /\ UNCHANGED restFrame

\* the loop head: attempt <= maxRetries ? fn() : throw lastError
LoopHead ==
    /\ pc = "loop"
    /\ IF LoopCondition(attempt, maxRetries)
       THEN /\ pc' = "awaiting"
            /\ calls' = calls + 1
            /\ invoked' = Append(invoked, Forward(method, args[1]))
            /\ outcome' = outcome
       ELSE /\ pc' = "thrown"
            /\ calls' = calls
            /\ invoked' = invoked
            /\ outcome' = Threw(IF lastError = None
                                THEN [t |-> "undefined", code |-> None]
                                ELSE lastError[1])
    /\ UNCHANGED <<variant, rest, handle, maxRetries, baseDelayMs, method, args,
                   attempt, lastError, history, delay, sleeps, warns, errors,
                   lastLog>>
    /\ UNCHANGED restFrame

\* await fn() resolves: return
FnResolves(v) ==
    /\ pc = "awaiting"
    /\ history' = Append(history, FnOk(v))
    /\ outcome' = Returned(v)
    /\ pc' = "returned"
    /\ UNCHANGED <<variant, rest, handle, maxRetries, baseDelayMs, method, args,
                   attempt, lastError, calls, invoked, delay, sleeps, warns,
                   errors, lastLog>>
    /\ UNCHANGED restFrame

\* await fn() rejects with e: the catch block, up to the setTimeout
FnRejects(e, j) ==
    /\ pc = "awaiting"
    /\ history' = Append(history, FnFail(e))
    /\ lastError' = Some(e)
    /\ LET c == Classify(variant, e)
           d == Delay(baseDelayMs, attempt, j)
       IN  CASE c = "crash" ->
                  /\ outcome' = Threw(TypeErrorValue)
                  /\ pc' = "thrown"
                  /\ UNCHANGED <<delay, sleeps, warns, errors, lastLog>>
             [] c = "fatal" ->
                  /\ outcome' = Threw(e)
                  /\ pc' = "thrown"
                  /\ UNCHANGED <<delay, sleeps, warns, errors, lastLog>>
             [] c = "retryable" /\ Exhausted(attempt, maxRetries) ->
                  /\ errors' = errors + 1
                  /\ lastLog' = [NoLog EXCEPT !.level = "error", !.method = method,
                                              !.retries = maxRetries]
                  /\ outcome' = Threw(e)
                  /\ pc' = "thrown"
                  /\ UNCHANGED <<delay, sleeps, warns>>
             [] OTHER ->
                  /\ delay' = Some(d)
                  /\ warns' = warns + 1
                  /\ lastLog' = [NoLog EXCEPT !.level = "warn", !.method = method,
                                              !.attempt = attempt + 1,
                                              !.total = maxRetries + 1,
                                              !.delay = RoundedDelay(baseDelayMs,
                                                                     attempt, j)]
                  /\ sleeps' = sleeps + 1
                  /\ pc' = "sleeping"
                  /\ UNCHANGED <<outcome, errors>>
    /\ UNCHANGED <<variant, rest, handle, maxRetries, baseDelayMs, method, args,
                   attempt, calls, invoked>>
    /\ UNCHANGED restFrame

\* the setTimeout fires: attempt++ and back to the loop head
TimerFires ==
    /\ pc = "sleeping"
    /\ attempt' = NextAttempt(attempt)
    /\ pc' = "loop"
    /\ UNCHANGED <<variant, rest, handle, maxRetries, baseDelayMs, method, args,
                   lastError, calls, history, invoked, outcome, delay, sleeps,
                   warns, errors, lastLog>>
    /\ UNCHANGED restFrame

RestNext ==
    \/ \E m \in AllMethods, a \in CallArgs : CallWrapped(m, a)
    \/ \E m \in AllMethods, a \in CallArgs : CallThrough(m, a)
    \/ \E v \in Responses : ThroughResolves(v)
    \/ \E e \in Thrown : ThroughRejects(e)
    \/ LoopHead
    \/ \E v \in Responses : FnResolves(v)
    \/ \E e \in Thrown, j \in 0..(JitterSteps - 1) : FnRejects(e, j)
    \/ TimerFires

(***************************************************************************)
(* Two calls of wrapped methods in progress at once on the same wrapped    *)
(* transport.  Each call of retryWithBackoff has its own attempt (line 87) *)
(* and lastError (line 84); maxRetries, baseDelayMs and the logger belong  *)
(* to the closure of wrapRest and are shared.  The second call runs the    *)
(* same code on its own locals.                                            *)
(***************************************************************************)
CallShared(own, other) == other

\* a local of retryWithBackoff, as read by the call it belongs to
CallLocal(own, other) == own

PeerCall(m, a) ==
    /\ peer.pc = "idle"
    /\ rest.slots[m] = "retrying"
    /\ peer' = [peer EXCEPT !.method = m, !.args = Some(a), !.pc = "loop",
                            !.attempt = 0, !.lastError = None]
    /\ UNCHANGED <<restVars, peerFrame>>

PeerLoopHead ==
    /\ peer.pc = "loop"
    /\ IF LoopCondition(CallLocal(peer.attempt, attempt), maxRetries)
       THEN /\ peer' = [peer EXCEPT !.pc = "awaiting", !.calls = @ + 1]
            /\ invoked' = Append(invoked, Forward(peer.method, peer.args[1]))
       ELSE /\ peer' = [peer EXCEPT !.pc = "thrown",
                           !.outcome = Threw(IF peer.lastError = None
                                             THEN [t |-> "undefined", code |-> None]
                                             ELSE peer.lastError[1])]
            /\ invoked' = invoked
    /\ UNCHANGED <<variant, rest, handle, maxRetries, baseDelayMs, method, args,
                   pc, attempt, lastError, calls, history, outcome, delay,
                   sleeps, warns, errors, lastLog>>
    /\ UNCHANGED peerFrame

PeerResolves(v) ==
    /\ peer.pc = "awaiting"
    /\ peer' = [peer EXCEPT !.history = Append(@, FnOk(v)),
                            !.outcome = Returned(v), !.pc = "returned"]
    /\ UNCHANGED <<restVars, peerFrame>>

PeerRejects(e, j) ==
    /\ peer.pc = "awaiting"
    /\ LET c == Classify(variant, e)
           a == CallLocal(peer.attempt, attempt)
           d == Delay(baseDelayMs, a, j)
           failed == [peer EXCEPT !.history = Append(@, FnFail(e)),
                                  !.lastError = Some(e)]
       IN  CASE c = "crash" ->
                  /\ peer' = [failed EXCEPT !.outcome = Threw(TypeErrorValue),
                                            !.pc = "thrown"]
                  /\ UNCHANGED <<warns, errors, lastLog>>
             [] c = "fatal" ->
                  /\ peer' = [failed EXCEPT !.outcome = Threw(e), !.pc = "thrown"]
                  /\ UNCHANGED <<warns, errors, lastLog>>
             [] c = "retryable" /\ Exhausted(a, maxRetries) ->
                  /\ errors' = errors + 1
                  /\ lastLog' = [NoLog EXCEPT !.level = "error",
                                              !.method = peer.method,
                                              !.retries = maxRetries]
                  /\ peer' = [failed EXCEPT !.outcome = Threw(e), !.pc = "thrown"]
                  /\ UNCHANGED warns
             [] OTHER ->
                  /\ warns' = warns + 1
                  /\ lastLog' = [NoLog EXCEPT !.level = "warn",
                                              !.method = peer.method,
                                              !.attempt = a + 1,
                                              !.total = maxRetries + 1,
                                              !.delay = RoundedDelay(baseDelayMs, a, j)]
                  /\ peer' = [failed EXCEPT !.delay = Some(d), !.sleeps = @ + 1,
                                            !.pc = "sleeping"]
                  /\ UNCHANGED errors
    /\ UNCHANGED <<variant, rest, handle, maxRetries, baseDelayMs, method, args,
                   pc, attempt, lastError, calls, history, invoked, outcome,
                   delay, sleeps>>
    /\ UNCHANGED peerFrame

PeerTimerFires ==
    /\ peer.pc = "sleeping"
    /\ peer' = [peer EXCEPT !.attempt = NextAttempt(CallLocal(peer.attempt, attempt)),
                            !.pc = "loop"]
    /\ UNCHANGED <<restVars, peerFrame>>

\* the inputs of the two-call runs
ConcErrors == {NumErr(500), NumErr(404)}
ConcJitter == {0, JitterSteps - 1}

ConcurrentNext ==
    \/ CallWrapped("POST", <<"/a", None>>)
    \/ LoopHead
    \/ FnResolves("r1")
    \/ \E e \in ConcErrors, j \in ConcJitter : FnRejects(e, j)
    \/ TimerFires
    \/ PeerCall("PATCH", <<"/b", Some("body")>>)
    \/ PeerLoopHead
    \/ PeerResolves("r2")
    \/ \E e \in ConcErrors, j \in ConcJitter : PeerRejects(e, j)
    \/ PeerTimerFires

(***************************************************************************)
(* wrapRest applied twice to one transport, with maxRetries m1 and then    *)
(* m2: the second application binds the retrying closure of the first as   *)
(* its "original" (lines 36-38), so that each attempt of the outer loop is *)
(* one whole call of the inner loop.                                       *)
(***************************************************************************)
NestErrors == {NumErr(500), NumErr(429), NumErr(404),
               [t |-> "null", code |-> None]}

NestIdle(m1, m2) ==
    [m1 |-> m1, m2 |-> m2, pc |-> "idle", inner |-> 0, outer |-> 0,
     lastInner |-> None, lastOuter |-> None, innerThrew |-> None,
     originals |-> 0, innerCalls |-> 0,
     seen |-> {}, warns |-> 0, errors |-> 0, outcome |-> NoOutcome]

\* the catch block of the outer loop, given what the inner call threw
OuterCatch(n, x) ==
    LET c == Classify(variant, x)
        caught == [n EXCEPT !.lastOuter = Some(x)]
    IN  CASE c = "crash" ->
               [caught EXCEPT !.pc = "thrown", !.outcome = Threw(TypeErrorValue)]
          [] c = "fatal" ->
               [caught EXCEPT !.pc = "thrown", !.outcome = Threw(x)]
          [] c = "retryable" /\ Exhausted(n.outer, n.m2) ->
               [caught EXCEPT !.pc = "thrown", !.outcome = Threw(x),
                              !.errors = @ + 1]
          [] OTHER ->
               [caught EXCEPT !.pc = "outerSleeping", !.warns = @ + 1]

\* the inner call rejects with x: the outer loop, suspended at its
\* await fn(), resumes in a later promise reaction
InnerThrows(n, x) == [n EXCEPT !.pc = "innerThrown", !.innerThrew = Some(x)]

\* the catch block of the inner loop, given what the original method threw
InnerCatch(n, e) ==
    LET c == Classify(variant, e)
        caught == [n EXCEPT !.lastInner = Some(e), !.seen = @ \cup {e}]
    IN  CASE c = "crash" -> InnerThrows(caught, TypeErrorValue)
          [] c = "fatal" -> InnerThrows(caught, e)
          [] c = "retryable" /\ Exhausted(n.inner, n.m1) ->
               InnerThrows([caught EXCEPT !.errors = @ + 1], e)
          [] OTHER ->
               [caught EXCEPT !.pc = "innerSleeping", !.warns = @ + 1]

NestCall ==
    /\ nest.pc = "idle"
    /\ nest' = [nest EXCEPT !.pc = "outerLoop", !.outer = 0, !.lastOuter = None]
    /\ UNCHANGED nestFrame

\* the outer loop head: its fn() is a call of the inner retrying closure
NestOuterLoopHead ==
    /\ nest.pc = "outerLoop"
    /\ nest' = IF LoopCondition(nest.outer, nest.m2)
               THEN [nest EXCEPT !.pc = "innerLoop", !.inner = 0,
                                 !.lastInner = None, !.innerCalls = @ + 1]
               ELSE [nest EXCEPT !.pc = "thrown",
                       !.outcome = Threw(IF nest.lastOuter = None
                                         THEN [t |-> "undefined", code |-> None]
                                         ELSE nest.lastOuter[1])]
    /\ UNCHANGED nestFrame

\* the inner loop head: its fn() is the transport's original method
NestInnerLoopHead ==
    /\ nest.pc = "innerLoop"
    /\ nest' = IF LoopCondition(nest.inner, nest.m1)
               THEN [nest EXCEPT !.pc = "awaiting", !.originals = @ + 1]
               ELSE InnerThrows(nest, IF nest.lastInner = None
                                      THEN [t |-> "undefined", code |-> None]
                                      ELSE nest.lastInner[1])
    /\ UNCHANGED nestFrame

NestResolves(v) ==
    /\ nest.pc = "awaiting"
    /\ nest' = [nest EXCEPT !.pc = "returned", !.outcome = Returned(v)]
    /\ UNCHANGED nestFrame

NestRejects(e) ==
    /\ nest.pc = "awaiting"
    /\ nest' = InnerCatch(nest, e)
    /\ UNCHANGED nestFrame

\* the outer loop's await fn() rejects with what the inner call threw: the
\* catch block of the outer loop
NestOuterCatches ==
    /\ nest.pc = "innerThrown"
    /\ nest' = OuterCatch(nest, nest.innerThrew[1])
    /\ UNCHANGED nestFrame

NestInnerTimerFires ==
    /\ nest.pc = "innerSleeping"
    /\ nest' = [nest EXCEPT !.inner = NextAttempt(@), !.pc = "innerLoop"]
    /\ UNCHANGED nestFrame

NestOuterTimerFires ==
    /\ nest.pc = "outerSleeping"
    /\ nest' = [nest EXCEPT !.outer = NextAttempt(@), !.pc = "outerLoop"]
    /\ UNCHANGED nestFrame

NestedNext ==
    \/ NestCall
    \/ NestOuterLoopHead
    \/ NestInnerLoopHead
    \/ \E v \in Responses : NestResolves(v)
    \/ \E e \in NestErrors : NestRejects(e)
    \/ NestOuterCatches
    \/ NestInnerTimerFires
    \/ NestOuterTimerFires

(***************************************************************************)
(* installInteractionErrorHandler (src/src/errors/index.ts): on            *)
(* interactionCreate the reply, followUp and editReply of a repliable      *)
(* interaction are replaced by wrappers.  handleInteractionError sends the *)
(* user-facing message through interaction.reply / interaction.editReply,  *)
(* looked up on the interaction when the handler runs, that is through the *)
(* wrappers.  ix.stack holds the errors caught by the wrappers that are    *)
(* waiting for their handler to finish, outermost first, and ix.depth how  *)
(* many of them still wait.                                                *)
(***************************************************************************)
IxMethods == {"reply", "followUp", "editReply"}

EasierErr(code) == [easier |-> TRUE, code |-> code]

IxErrors == {EasierErr("PERMISSION_ERROR"), EasierErr("RATE_LIMIT_ERROR"),
             EasierErr("COMMAND_VALIDATION_ERROR"), EasierErr("OTHER"),
             [easier |-> FALSE, code |-> "PERMISSION_ERROR"]}

NoIxError == [easier |-> FALSE, code |-> ""]

IxIdle(repliable, acked) ==
    [wrapped |-> repliable, acked |-> acked, pc |-> "idle", method |-> "",
     current |-> "", stack |-> <<>>, depth |-> 0, sends |-> 0, logged |-> 0,
     sendFailures |-> 0, message |-> "",
     outcome |-> [kind |-> "none", err |-> NoIxError]]

\* handleInteractionError: the message for the user
UserMessage(e) ==
    IF e.easier /\ e.code = "PERMISSION_ERROR"
    THEN "You don't have permission to use this command."
    ELSE IF e.easier /\ e.code = "RATE_LIMIT_ERROR"
    THEN "You're doing that too fast. Please try again later."
    ELSE IF e.easier /\ e.code = "COMMAND_VALIDATION_ERROR"
    THEN "Invalid command input. Please check your parameters."
    ELSE "Something went wrong while processing your request."

\* handleInteractionError: the method the message is sent with
SendMethod(acked) == IF acked THEN "editReply" ELSE "reply"

\* user code calls interaction.reply / followUp / editReply
IxCall(m) ==
    /\ ix.pc = "idle"
    /\ ix' = [ix EXCEPT !.pc = "awaiting", !.method = m, !.current = m]
    /\ UNCHANGED ixFrame

\* the original method in flight resolves.  With no handler waiting the
\* call returns.  Otherwise it was a send of the user-facing message: the
\* innermost handler's await resumes, and its wrapper, suspended at
\* await handleInteractionError(...), is resumed in a later promise reaction.
IxResolves ==
    /\ ix.pc = "awaiting"
    /\ ix' = IF ix.depth = 0
             THEN [ix EXCEPT !.pc = "returned",
                             !.acked = @ \/ ix.current = "reply",
                             !.outcome = [kind |-> "returned", err |-> NoIxError]]
             ELSE [ix EXCEPT !.pc = "unwinding",
                             !.acked = @ \/ ix.current = "reply"]
    /\ UNCHANGED ixFrame

\* throw error (line 112): the innermost wrapper still waiting rethrows the
\* error it had caught, to the caller when it is the outermost one, and
\* otherwise to the handler one level out, whose await of the send rejects
IxRethrows ==
    /\ ix.pc = "unwinding"
    /\ ix' = IF ix.depth = 1
             THEN [ix EXCEPT !.depth = 0, !.pc = "thrown",
                             !.outcome = [kind |-> "thrown", err |-> ix.stack[1]]]
             ELSE [ix EXCEPT !.depth = @ - 1, !.pc = "catching"]
    /\ UNCHANGED ixFrame

\* catch (replyError) (lines 152-154): the handler logs the failure of its
\* send and returns; its wrapper resumes in a later promise reaction
IxCatches ==
    /\ ix.pc = "catching"
    /\ ix' = [ix EXCEPT !.sendFailures = @ + 1, !.pc = "unwinding"]
    /\ UNCHANGED ixFrame

\* the original method in flight rejects with e.  On an interaction that is
\* not repliable nothing was wrapped and the caller receives e.  Otherwise
\* the wrapper catches e and awaits handleInteractionError, which logs e and
\* sends the message through the wrapped reply or editReply.
IxRejects(e) ==
    /\ ix.pc = "awaiting"
    /\ ix.wrapped => Len(ix.stack) < MaxDepth
    /\ ix' = IF ~ix.wrapped
             THEN [ix EXCEPT !.pc = "thrown",
                             !.outcome = [kind |-> "thrown", err |-> e]]
             ELSE [ix EXCEPT !.stack = Append(@, e),
                             !.depth = @ + 1,
                             !.logged = @ + 1,
                             !.message = UserMessage(e),
                             !.current = SendMethod(ix.acked),
                             !.sends = @ + 1]
    /\ UNCHANGED ixFrame

InteractionNext ==
    \/ \E m \in IxMethods : IxCall(m)
    \/ IxResolves
    \/ IxRethrows
    \/ IxCatches
    \/ \E e \in IxErrors : IxRejects(e)

(***************************************************************************)
(* createCommandHandler (src/src/commands/index.ts): the handler for one   *)
(* interaction.  cmd.attempts lists the replies the handler has issued,    *)
(* cmd.delivered those that resolved.                                      *)
(***************************************************************************)
\* the commands given to createCommandHandler: name -> has a guard
Commands == [ping |-> FALSE, admin |-> TRUE, mod |-> TRUE]

CommandNames == {"ping", "admin", "mod", "unknown"}

\* what a guard may resolve with (typed Promise<boolean | string>; nothing
\* stops a JavaScript guard from resolving with anything else)
GuardResults == {<<"boolean", TRUE>>, <<"boolean", FALSE>>,
                 <<"string", "Not allowed">>, <<"string", "">>,
                 <<"string", "true">>, <<"number", 1>>, <<"undefined", 0>>}

CmdIdle ==
    [pc |-> "idle", name |-> "", guardResult |-> None, runs |-> 0,
     acked |-> FALSE, attempts |-> <<>>, delivered |-> <<>>, logged |-> 0,
     handled |-> 0]

GuardPassedTruthy(g) ==
    \/ g = <<"boolean", TRUE>>
    \/ g[1] = "string" /\ g[2] # ""
    \/ g[1] = "number" /\ g[2] # 0

\* guardResult !== true is false
GuardPassed(g) == g = <<"boolean", TRUE>>

\* typeof guardResult === 'string' ? guardResult : 'Access denied'
DenialMessage(g) == IF g[1] = "string" THEN g[2] ELSE "Access denied"

Reply(m, content, ephemeral) ==
    [method |-> m, content |-> content, ephemeral |-> ephemeral]

\* the catch block's message to the user
ErrorReply(acked) ==
    IF acked
    THEN Reply("editReply", "An error occurred while executing this command.", FALSE)
    ELSE Reply("reply", "An error occurred while executing this command.", TRUE)

\* the handler is called with an interaction: it returns at once for one
\* that is not a chat-input command or names no known command; otherwise it
\* awaits the guard if the command has one, and else run
CmdDispatch(chatInput, name) ==
    /\ cmd.pc = "idle"
    /\ cmd' = IF ~chatInput \/ name \notin DOMAIN Commands
              THEN [cmd EXCEPT !.pc = "ignored"]
              ELSE IF Commands[name]
              THEN [cmd EXCEPT !.pc = "guard", !.name = name]
              ELSE [cmd EXCEPT !.pc = "run", !.name = name, !.runs = @ + 1]
    /\ UNCHANGED cmdFrame

\* the guard resolves with g, having replied to or deferred the interaction
\* itself or not
GuardResolves(g, acked) ==
    /\ cmd.pc = "guard"
    /\ cmd' = IF GuardPassed(g)
              THEN [cmd EXCEPT !.pc = "run", !.guardResult = Some(g),
                               !.acked = acked, !.runs = @ + 1]
              ELSE [cmd EXCEPT !.pc = "denying", !.guardResult = Some(g),
                               !.acked = acked,
                               !.attempts =
                                   Append(@, Reply("reply", DenialMessage(g), TRUE))]
    /\ UNCHANGED cmdFrame

\* the guard rejects, having replied to or deferred the interaction or not
GuardRejects(acked) ==
    /\ cmd.pc = "guard"
    /\ cmd' = [cmd EXCEPT !.pc = "reporting", !.acked = acked, !.logged = @ + 1,
                          !.attempts = Append(@, ErrorReply(acked))]
    /\ UNCHANGED cmdFrame

RunResolves ==
    /\ cmd.pc = "run"
    /\ cmd' = [cmd EXCEPT !.pc = "done"]
    /\ UNCHANGED cmdFrame

\* run rejects, having replied to or deferred the interaction or not
RunRejects(acked) ==
    /\ cmd.pc = "run"
    /\ cmd' = [cmd EXCEPT !.pc = "reporting", !.acked = acked, !.logged = @ + 1,
                          !.attempts = Append(@, ErrorReply(acked))]
    /\ UNCHANGED cmdFrame

\* the reply the handler awaits resolves
ReplyResolves ==
    /\ cmd.pc \in {"denying", "reporting"}
    /\ cmd' = [cmd EXCEPT !.pc = "done",
                          !.delivered = Append(@, cmd.attempts[Len(cmd.attempts)])]
    /\ UNCHANGED cmdFrame

\* the reply the handler awaits rejects: the denial is inside the try block,
\* so its failure is caught, logged and answered with the error message; the
\* failure of that message rejects the handler's promise
ReplyRejects ==
    /\ cmd.pc \in {"denying", "reporting"}
    /\ cmd' = IF cmd.pc = "denying"
              THEN [cmd EXCEPT !.pc = "reporting", !.logged = @ + 1,
                               !.attempts = Append(@, ErrorReply(cmd.acked))]
              ELSE [cmd EXCEPT !.pc = "rejected"]
    /\ UNCHANGED cmdFrame

\* the handler has finished with one interaction; the client emits the next
NextInteraction ==
    /\ cmd.pc \in {"ignored", "done", "rejected"}
    /\ cmd.handled + 1 < MaxInteractions
    /\ cmd' = [CmdIdle EXCEPT !.logged = cmd.logged, !.handled = cmd.handled + 1]
    /\ UNCHANGED cmdFrame

CommandNext ==
    \/ \E chatInput \in BOOLEAN, name \in CommandNames : CmdDispatch(chatInput, name)
    \/ \E g \in GuardResults, acked \in BOOLEAN : GuardResolves(g, acked)
    \/ \E acked \in BOOLEAN : GuardRejects(acked)
    \/ RunResolves
    \/ \E acked \in BOOLEAN : RunRejects(acked)
    \/ ReplyResolves
    \/ ReplyRejects
    \/ NextInteraction

(***************************************************************************)
(* memoryCache (src/src/cache/index.ts:81-116).                            *)
(***************************************************************************)
Keys == {"k1", "k2"}
Values == {"v1", "v2"}
\* the ttlSeconds argument of set: omitted, 0, or a number of seconds
TTLs == {None, Some(0), Some(1), Some(-3)}
\* the set calls explored: every value and ttl on k1, and on the other key one
\* value, without a ttl or with a ttl of one second
SetArgs == {<<"k1", v, ttl>> : v \in Values, ttl \in TTLs}
             \cup {<<"k2", "v1", ttl>> : ttl \in {None, Some(1)}}
\* amounts by which the clock advances between two operations
TickSteps == {1, MsPerSecond, SweepIntervalMs}

Entry(v, x) == [value |-> v, expires |-> x]

\* JavaScript truthiness of the optional number ttlSeconds
Truthy(ttl) == ttl # None /\ ttl[1] # 0

ExpiresAtNoScale(ttl, t) == IF Truthy(ttl) THEN t + ttl[1] ELSE 0

\* const expires = ttlSeconds ? Date.now() + (ttlSeconds * 1000) : 0
ExpiresAt(ttl, t) == IF Truthy(ttl) THEN t + ttl[1] * MsPerSecond ELSE 0

IsExpiredInclusive(entry, t) == entry.expires > 0 /\ entry.expires <= t

IsExpiredAlsoNever(entry, t) == entry.expires < t

\* entry.expires > 0 && entry.expires < Date.now()
IsExpired(entry, t) == entry.expires > 0 /\ entry.expires < t

\* the value get resolves with, for the content of the slot of its key
GetValue(slot, t) ==
    IF slot = None THEN None
    ELSE IF IsExpired(slot[1], t) THEN None
    ELSE Some(slot[1].value)

GetSlotHides(slot, t) == slot

\* the slot of a key after a get on it: store.delete(key) when expired
GetSlot(slot, t) ==
    IF slot # None /\ IsExpired(slot[1], t) THEN None ELSE slot

SetSlotKeepsExpiry(slot, v, ttl, t) ==
    IF slot # None /\ ~Truthy(ttl)
    THEN Some(Entry(v, slot[1].expires))
    ELSE Some(Entry(v, ExpiresAt(ttl, t)))

\* the slot of a key after a set on it: store.set(key, { value, expires })
SetSlot(slot, v, ttl, t) == Some(Entry(v, ExpiresAt(ttl, t)))

DeletedAll(st, k) == [j \in DOMAIN st |-> None]

\* the Map after store.delete(key)
Deleted(st, k) == [st EXCEPT ![k] = None]

IsDueInclusive(entry, t) == entry.expires > 0 /\ entry.expires <= t

IsDueAlsoNever(entry, t) == entry.expires < t

\* the test of the setInterval callback: entry.expires > 0 && entry.expires < now
IsDue(entry, t) == entry.expires > 0 /\ entry.expires < t

\* the store after one run of the setInterval callback
Swept(st, t) ==
    [k \in DOMAIN st |-> IF st[k] # None /\ IsDue(st[k][1], t) THEN None ELSE st[k]]

\* the kind of the content of a slot at time t (recorded in lastOp only)
Kind(slot, t) ==
    IF slot = None THEN "absent"
    ELSE IF slot[1].expires <= 0 THEN "never"
    ELSE IF slot[1].expires < t THEN "due"
    ELSE "live"

Present(st) == {k \in DOMAIN st : st[k] # None}

Op(o, k, w, r) == [op |-> o, key |-> k, was |-> w, removed |-> r]

\* memoryCache(): an empty Map and a timer
CacheIdle ==
    /\ store = [k \in Keys |-> None]
    /\ now = StartClock
    /\ nextSweep = StartClock + SweepIntervalMs
    /\ ticks = 0
    /\ lastSet = [k \in Keys |-> None]
    /\ getResult = None
    /\ lastOp = Op("memoryCache", "", "", {})
    /\ released = FALSE
    /\ refStore = [k \in Keys |-> None]
    /\ refResult = None

get(k) ==
    /\ ~released
    /\ getResult' = Some([key |-> k, result |-> GetValue(store[k], now)])
    /\ store' = [store EXCEPT ![k] = GetSlot(store[k], now)]
    /\ lastOp' = Op("get", k, Kind(store[k], now), Present(store) \ Present(store'))
    /\ refResult' = Some(GetValue(refStore[k], now))
    /\ refStore' = [refStore EXCEPT ![k] = GetSlot(refStore[k], now)]
    /\ UNCHANGED <<now, nextSweep, ticks, lastSet, released>>
    /\ UNCHANGED cacheFrame

set(k, v, ttl) ==
    /\ ~released
    /\ store' = [store EXCEPT ![k] = SetSlot(store[k], v, ttl, now)]
    /\ lastOp' = Op("set", k, Kind(store[k], now), Present(store) \ Present(store'))
    /\ lastSet' = [lastSet EXCEPT ![k] = Some([value |-> v, ttl |-> ttl, at |-> now,
                                               expires |-> ExpiresAt(ttl, now)])]
    /\ getResult' = None
    /\ refStore' = [refStore EXCEPT ![k] = SetSlot(refStore[k], v, ttl, now)]
    /\ refResult' = None
    /\ UNCHANGED <<now, nextSweep, ticks, released>>
    /\ UNCHANGED cacheFrame

del(k) ==
    /\ ~released
    /\ store' = Deleted(store, k)
    /\ lastSet' = [lastSet EXCEPT ![k] = None]
    /\ getResult' = None
    /\ lastOp' = Op("del", k, Kind(store[k], now), Present(store) \ Present(store'))
    /\ refStore' = Deleted(refStore, k)
    /\ refResult' = None
    /\ UNCHANGED <<now, nextSweep, ticks, released>>
    /\ UNCHANGED cacheFrame

\* the setInterval callback, run once the timer is due (possibly late)
Sweep ==
    /\ now >= nextSweep
    /\ store' = Swept(store, now)
    /\ nextSweep' = now + SweepIntervalMs
    /\ getResult' = None
    /\ lastOp' = Op("sweep", "", "", Present(store) \ Present(store'))
    /\ refResult' = None
    /\ UNCHANGED <<now, ticks, lastSet, released, refStore>>
    /\ UNCHANGED cacheFrame

\* time passes
Tick(d) ==
    /\ ticks < MaxTicks
    /\ now' = now + d
    /\ ticks' = ticks + 1
    /\ getResult' = None
    /\ lastOp' = Op("tick", "", "", {})
    /\ refResult' = None
    /\ UNCHANGED <<store, nextSweep, lastSet, released, refStore>>
    /\ UNCHANGED cacheFrame

\* the caller drops the adapter: the object returned by memoryCache() has
\* get, set and del only, and the handle of setInterval is not kept
Release ==
    /\ ~released
    /\ released' = TRUE
    /\ getResult' = None
    /\ lastOp' = Op("release", "", "", {})
    /\ refResult' = None
    /\ UNCHANGED <<store, now, nextSweep, ticks, lastSet, refStore>>
    /\ UNCHANGED cacheFrame

CacheNext ==
    \/ \E k \in Keys : get(k)
    \/ \E a \in SetArgs : set(a[1], a[2], a[3])
    \/ \E k \in Keys : del(k)
    \/ Sweep
    \/ \E d \in TickSteps : Tick(d)
    \/ Release

(***************************************************************************)
(* Specifications: the two components share no state, and each is checked  *)
(* with the other at rest.                                                 *)
(***************************************************************************)
\* the components at rest
RestAtRest == RestIdle("typed", [maxRetries |-> None, baseDelayMs |-> None])
PeerAtRest == peer = PeerIdle
NestAtRest == nest = NestIdle(0, 0)
IxAtRest == ix = IxIdle(FALSE, FALSE)
CmdAtRest == cmd = CmdIdle

RestSpecInit ==
    RestInit /\ CacheIdle /\ PeerAtRest /\ NestAtRest /\ IxAtRest /\ CmdAtRest

RestSpec == RestSpecInit /\ [][RestNext]_vars

\* the same, with every promise settling and every timer firing: the call's
\* own steps are taken when enabled, the operation settles one way or the
\* other, and a pending setTimeout fires
Settles ==
    \/ \E v \in Responses : FnResolves(v)
    \/ \E e \in Thrown, j \in 0..(JitterSteps - 1) : FnRejects(e, j)
    \/ \E v \in Responses : ThroughResolves(v)
    \/ \E e \in Thrown : ThroughRejects(e)

RestLiveSpec ==
    /\ RestSpecInit
    /\ [][RestNext]_vars
    /\ WF_vars(LoopHead)
    /\ WF_vars(Settles)
    /\ WF_vars(TimerFires)

CacheInit ==
    RestAtRest /\ CacheIdle /\ PeerAtRest /\ NestAtRest /\ IxAtRest /\ CmdAtRest

CacheSpec == CacheInit /\ [][CacheNext]_vars

\* two calls at once on one wrapped transport
ConcurrentInit ==
    /\ \E n \in 0..MaxRetriesBound :
          RestIdle("typed", [maxRetries |-> Some(n), baseDelayMs |-> Some(100)])
    /\ CacheIdle /\ PeerAtRest /\ NestAtRest /\ IxAtRest /\ CmdAtRest

ConcurrentSpec == ConcurrentInit /\ [][ConcurrentNext]_vars

\* one call on a transport wrapped twice
NestedInit ==
    /\ RestAtRest /\ CacheIdle /\ PeerAtRest /\ IxAtRest /\ CmdAtRest
    /\ \E m1 \in 0..MaxRetriesBound, m2 \in 0..MaxRetriesBound :
          nest = NestIdle(m1, m2)

NestedSpec == NestedInit /\ [][NestedNext]_vars

\* one interaction seen by the listener installInteractionErrorHandler adds;
\* it may or may not be repliable, and may or may not have been replied to
\* or deferred already
InteractionInit ==
    /\ RestAtRest /\ CacheIdle /\ PeerAtRest /\ NestAtRest /\ CmdAtRest
    /\ \E repliable \in BOOLEAN, acked \in BOOLEAN : ix = IxIdle(repliable, acked)

InteractionSpec == InteractionInit /\ [][InteractionNext]_vars

\* one interaction given to the command handler
CommandInit ==
    RestAtRest /\ CacheIdle /\ PeerAtRest /\ NestAtRest /\ IxAtRest /\ CmdAtRest

CommandSpec == CommandInit /\ [][CommandNext]_vars

Init == RestInit /\ CacheIdle /\ PeerAtRest /\ NestAtRest /\ IxAtRest /\ CmdAtRest

Next ==
    \/ RestNext
    \/ CacheNext
    \/ ConcurrentNext
    \/ NestedNext
    \/ InteractionNext
    \/ CommandNext

Spec == Init /\ [][Next]_vars

(***************************************************************************)
(* Properties of one call of a wrapped method.                             *)
(***************************************************************************)
Invocations == Len(history)

LastInvocation == history[Len(history)]

AllFailedWith(e) == \A i \in 1..Len(history) : history[i] = FnFail(e)

\* the classification the specification gives: Fatal is a numeric status
\* code in [400, 500) other than 429, anything else is Retryable
HasNumericCode(e) == Len(e.code) = 2 /\ e.code[1] = "number"

FatalBySpec(e) ==
    /\ HasNumericCode(e)
    /\ e.code[2] >= 400 /\ e.code[2] < 500 /\ e.code[2] # 429

LastFailed == Invocations > 0 /\ ~LastInvocation.ok

\* the call in progress is one of a method wrapRest replaced
RetryingCall == method # "" /\ rest.slots[method] = "retrying"

\* C1 (retry ceiling): while the operation has failed with a 500 error on
\* every invocation the call never returns a value and never invokes it more
\* than maxRetries + 1 times, and once the call has ended it has invoked the
\* operation exactly maxRetries + 1 times and thrown that 500 error.
C1_RetryCeiling ==
    (RetryingCall /\ AllFailedWith(NumErr(500))) =>
        /\ pc # "returned"
        /\ calls <= maxRetries + 1
        /\ pc = "thrown" =>
              /\ calls = maxRetries + 1
              /\ Invocations = maxRetries + 1
              /\ outcome = Threw(NumErr(500))

C1_Witness ==
    /\ pc = "thrown"
    /\ maxRetries = 2
    /\ method = "PATCH"
    /\ Invocations = 3
    /\ AllFailedWith(NumErr(500))
    /\ outcome = Threw(NumErr(500))

\* C2 (attempt bound): in every state of a call, whatever the operation did,
\* it has been invoked at most maxRetries + 1 times, so that the number of
\* retries (invocations after the first) is at most maxRetries.
C2_AttemptBound ==
    /\ calls <= maxRetries + 1
    /\ Invocations <= calls
    /\ calls > 0 => calls - 1 <= maxRetries

C2_Witness ==
    /\ maxRetries = 2
    /\ calls = 3
    /\ pc = "returned"
    /\ history[1] = FnFail(NumErr(429))
    /\ history[2] = FnFail(ObjErr(None))

\* C3 (fatal fast-path): when the latest invocation failed with a numeric
\* status code in [400, 500) other than 429, the call has thrown exactly that
\* error, there was no invocation and no backoff sleep after the failure, and
\* nothing was logged for it, at whatever attempt index it happened; a first
\* invocation failing with 404 leaves exactly one invocation.
C3_FatalFastPath ==
    (LastFailed /\ FatalBySpec(LastInvocation.err)) =>
        /\ pc = "thrown"
        /\ outcome = Threw(LastInvocation.err)
        /\ calls = Invocations
        /\ attempt = Invocations - 1
        /\ sleeps = Invocations - 1
        /\ warns = Invocations - 1
        /\ errors = 0
        /\ history[1] = FnFail(NumErr(404)) => calls = 1

C3_Witness ==
    /\ pc = "thrown"
    /\ maxRetries = 3
    /\ Invocations = 2
    /\ history[1] = FnFail(NumErr(500))
    /\ history[2] = FnFail(NumErr(404))
    /\ calls = 2
    /\ sleeps = 1

\* C4 (429 is retryable): after an invocation that failed with the numeric
\* code 429 the call throws only when the retry budget is used up (it was
\* invocation maxRetries + 1); otherwise it sleeps and then invokes the
\* operation again; an operation that failed with 429 every time has been
\* invoked exactly maxRetries + 1 times when the call throws, and the call
\* throws that error.
C4_RateLimitRetried ==
    /\ (LastFailed /\ LastInvocation.err = NumErr(429)) =>
          \/ /\ pc = "thrown"
             /\ Invocations = maxRetries + 1
             /\ outcome = Threw(NumErr(429))
          \/ /\ pc = "sleeping"
             /\ Invocations <= maxRetries
             /\ sleeps = Invocations
             /\ calls = Invocations
          \/ /\ pc = "loop"
             /\ attempt = Invocations
             /\ attempt <= maxRetries
             /\ sleeps = Invocations
          \/ /\ pc = "awaiting"
             /\ calls = Invocations + 1
             /\ sleeps = Invocations
    /\ (RetryingCall /\ pc = "thrown" /\ AllFailedWith(NumErr(429))) =>
          /\ calls = maxRetries + 1
          /\ outcome = Threw(NumErr(429))

C4_Witness ==
    /\ pc = "awaiting"
    /\ calls = 3
    /\ sleeps = 2
    /\ AllFailedWith(NumErr(429))

\* C5 (success short-circuits retries): when invocation k succeeded, the
\* call has returned the value of that invocation, the invocations before it
\* all failed and were retried, k is at most maxRetries + 1, the operation was
\* invoked exactly k times, and exactly k - 1 backoff sleeps happened, none of
\* them after the success.
C5_SuccessShortCircuits ==
    (Invocations > 0 /\ LastInvocation.ok) =>
        /\ pc = "returned"
        /\ outcome = Returned(LastInvocation.val)
        /\ calls = Invocations
        /\ Invocations <= maxRetries + 1
        /\ attempt = Invocations - 1
        /\ sleeps = Invocations - 1
        /\ \A i \in 1..(Invocations - 1) :
              /\ ~history[i].ok
              /\ Classify(variant, history[i].err) = "retryable"

C5_Witness ==
    /\ pc = "returned"
    /\ maxRetries = 3
    /\ Invocations = 3
    /\ history[1] = FnFail(NumErr(500))
    /\ history[2] = FnFail(NumErr(429))
    /\ history[3] = FnOk("r2")
    /\ outcome = Returned("r2")
    /\ sleeps = 2

\* C6 (error identity): a call that has thrown has thrown exactly the value
\* with which the final invocation of the operation was rejected.
C6_ErrorIdentity ==
    (RetryingCall /\ pc = "thrown") =>
        /\ LastFailed
        /\ outcome = Threw(LastInvocation.err)
        /\ outcome.err \in Thrown

\* C7 (backoff range): the delay slept after the failed retryable invocation
\* with attempt index n, for n in 0..maxRetries - 1, is at least
\* baseDelay * 2^n and less than baseDelay * 2^n + 250 milliseconds.
C7_BackoffRange ==
    pc = "sleeping" =>
        /\ attempt \in 0..(maxRetries - 1)
        /\ delay # None
        /\ delay[1] >= baseDelayMs * 2^attempt
        /\ delay[1] < baseDelayMs * 2^attempt + 250

C7_Witness ==
    /\ pc = "sleeping"
    /\ attempt = 2
    /\ baseDelayMs = 100
    /\ delay # None
    /\ delay[1] > 400

\* C8 (default classification): a failure is thrown before the retry budget
\* is used up only if it carries a numeric status code in [400, 500) other
\* than 429; every other failure is retried while budget remains.
C8_DefaultClassification ==
    (pc = "thrown" /\ LastFailed /\ Invocations < maxRetries + 1) =>
        FatalBySpec(LastInvocation.err)

\* C17 (wrapping scope): the reference wrapRest returned is the transport it
\* was given; exactly post, patch and delete have been replaced and every
\* other method is the transport's own; every invocation of an original
\* method during a call is of the method called and receives the (route,
\* options) of the call; a call of a method that was not replaced invokes
\* the original exactly once, delivers what it delivered and never retries,
\* sleeps or logs.
C17_WrappingScope ==
    /\ handle = Transport.id
    /\ rest.id = Transport.id
    /\ {m \in AllMethods : rest.slots[m] # Transport.slots[m]}
          = {"POST", "PATCH", "DELETE"}
    /\ \A m \in {"POST", "PATCH", "DELETE"} : rest.slots[m] = "retrying"
    /\ \A i \in 1..Len(invoked) :
          /\ args # None
          /\ invoked[i] = [method |-> method, route |-> args[1][1],
                           options |-> args[1][2]]
    /\ method \in {"POST", "PATCH", "DELETE"} => Len(invoked) = calls
    /\ method \in {"GET", "PUT"} =>
          /\ Len(invoked) = 1
          /\ calls = 0 /\ sleeps = 0 /\ warns = 0 /\ errors = 0
          /\ pc \in {"through", "returned", "thrown"}
          /\ pc = "through" => outcome = NoOutcome
          /\ pc # "through" => outcome.kind = pc

C17_Witness ==
    /\ method = "GET"
    /\ pc = "thrown"
    /\ outcome = Threw(NumErr(500))
    /\ maxRetries = 3
    /\ invoked = <<[method |-> "GET", route |-> "/b", options |-> Some("body")]>>

\* C18 (retry logging): every retry emits exactly one log line that names
\* the method, the attempt number out of the total number of attempts and
\* the computed delay; every exhaustion (the call ends with a Retryable
\* failure on invocation maxRetries + 1) emits exactly one log line that
\* names the method and the attempt number out of the total; a call that
\* succeeds on its first invocation or fails Fatal emits no log line.
C18_RetryLogging ==
    /\ warns = sleeps
    /\ pc = "sleeping" =>
          /\ lastLog.level = "warn"
          /\ lastLog.method = method
          /\ lastLog.attempt = attempt + 1
          /\ lastLog.total = maxRetries + 1
          /\ delay # None /\ lastLog.delay - delay[1] \in {0, 1}
    /\ errors <= 1
    /\ (RetryingCall /\ pc = "thrown" /\ LastFailed
          /\ ~FatalBySpec(LastInvocation.err)) =>
          /\ Invocations = maxRetries + 1
          /\ errors = 1
          /\ lastLog.level = "error"
          /\ lastLog.method = method
          /\ lastLog.attempt = maxRetries + 1
          /\ lastLog.total = maxRetries + 1
    /\ (pc = "returned" /\ Invocations = 1) => warns + errors = 0
    /\ (pc = "thrown" /\ LastFailed /\ FatalBySpec(LastInvocation.err)) =>
          warns + errors = 0

\* C24 (sequential attempts): in a call of a wrapped method the number of
\* invocations started exceeds the number settled by at most one, and by one
\* exactly while the call awaits the operation; when invocation n + 1 is in
\* flight the n invocations before it have all failed and n backoff sleeps
\* have been started and have completed; during a sleep no invocation is in
\* flight.
C24_SequentialAttempts ==
    RetryingCall =>
        /\ calls - Invocations \in {0, 1}
        /\ calls - Invocations = 1 <=> pc = "awaiting"
        /\ Len(invoked) = calls
        /\ pc = "awaiting" =>
              /\ \A i \in 1..Invocations : ~history[i].ok
              /\ sleeps = calls - 1
              /\ attempt = sleeps
        /\ pc = "sleeping" =>
              /\ calls = Invocations
              /\ sleeps = calls
              /\ attempt = sleeps - 1
              /\ LastFailed

C24_Witness ==
    /\ RetryingCall
    /\ pc = "awaiting"
    /\ calls = 3
    /\ Invocations = 2
    /\ sleeps = 2
    /\ history[1] = FnFail(NumErr(500))
    /\ history[2] = FnFail(ObjErr(None))

\* the locals of the first call, in the shape of those of the second
FirstCall ==
    [method |-> method, args |-> args, pc |-> pc, attempt |-> attempt,
     lastError |-> lastError, calls |-> calls, history |-> history,
     outcome |-> outcome, delay |-> delay, sleeps |-> sleeps]

\* a call behaves as its own invocations dictate: what it has done and
\* delivered follows from the results of its own invocations alone
OwnCourse(c) ==
    LET n == Len(c.history)
    IN  /\ c.calls <= maxRetries + 1
        /\ c.calls - n \in {0, 1}
        /\ c.calls - n = 1 <=> c.pc = "awaiting"
        /\ \A i \in 1..(n - 1) : c.history[i] = FnFail(NumErr(500))
        /\ c.sleeps = IF c.pc \in {"returned", "thrown"} THEN n - 1
                      ELSE IF c.pc = "idle" THEN 0 ELSE n
        /\ c.attempt = IF c.pc = "sleeping" THEN c.sleeps - 1
                       ELSE IF c.pc \in {"returned", "thrown"} THEN n - 1
                       ELSE c.sleeps
        /\ c.sleeps > 0 =>
              /\ c.delay # None
              /\ c.delay[1] >= baseDelayMs * 2^(c.sleeps - 1)
              /\ c.delay[1] < baseDelayMs * 2^(c.sleeps - 1) + 250
        /\ c.pc = "returned" <=> (n > 0 /\ c.history[n].ok)
        /\ c.pc = "returned" => c.outcome = Returned(c.history[n].val)
        /\ c.pc = "thrown" <=>
              /\ n > 0
              /\ ~c.history[n].ok
              /\ \/ c.history[n].err = NumErr(404)
                 \/ n = maxRetries + 1
        /\ c.pc = "thrown" => c.outcome = Threw(c.history[n].err)
        /\ c.lastError = IF n > 0 /\ ~c.history[n].ok
                         THEN Some(c.history[n].err)
                         ELSE IF n > 1 THEN Some(c.history[n - 1].err) ELSE None

\* C25 (independent calls): with two calls of wrapped methods in progress at
\* once on one wrapped transport, each call has its own attempt counter and
\* last error: each call's invocations, sleeps, delays and delivered result
\* or error follow from the results of its own invocations alone, and a step
\* of one call changes none of the locals of the other.
C25_IndependentCalls ==
    /\ [](OwnCourse(FirstCall) /\ OwnCourse(peer))
    /\ [][/\ peer' # peer => FirstCall' = FirstCall
          /\ FirstCall' # FirstCall => peer' = peer]_vars

C25_Witness ==
    /\ pc = "sleeping"
    /\ attempt = 0
    /\ lastError = Some(NumErr(500))
    /\ peer.pc = "awaiting"
    /\ peer.attempt = 2
    /\ peer.calls = 3
    /\ peer.lastError = Some(NumErr(500))

\* C26 (no sleep after the last attempt): a call that has ended has slept
\* once less than it has invoked the operation; when the invocation with
\* attempt index maxRetries failed with a Retryable error the call has logged
\* the error and thrown it without a further sleep; with maxRetries = 0 a
\* failing call has made exactly one invocation and has never slept.
C26_NoSleepAfterLast ==
    RetryingCall =>
        /\ pc \in {"returned", "thrown"} => sleeps = Invocations - 1
        /\ (pc = "thrown" /\ LastFailed /\ Invocations = maxRetries + 1
              /\ ~FatalBySpec(LastInvocation.err)) =>
              /\ sleeps = maxRetries
              /\ errors = 1
              /\ lastLog.level = "error"
              /\ outcome = Threw(LastInvocation.err)
        /\ (maxRetries = 0 /\ LastFailed) =>
              /\ pc = "thrown"
              /\ Invocations = 1
              /\ calls = 1
              /\ sleeps = 0

\* C27 (termination of a call): when every invocation settles and every
\* timer fires, a call of a wrapped method that has started eventually
\* returns or throws; a call that has ended has invoked the operation at
\* least once; whenever the loop condition is tested it holds, so that the
\* throw after the loop is never reached.
C27_Termination ==
    /\ [](RetryingCall =>
            /\ pc \in {"returned", "thrown"} => calls >= 1 /\ Invocations >= 1
            /\ pc = "loop" => attempt <= maxRetries)
    /\ (RetryingCall /\ pc = "loop" /\ attempt = 0)
          ~> (pc \in {"returned", "thrown"})

C27_Witness ==
    /\ RetryingCall
    /\ pc = "thrown"
    /\ maxRetries = 0
    /\ calls = 1
    /\ outcome = Threw(NumErr(500))

(***************************************************************************)
(* Properties of memoryCache.  getResult is set in the state right after a *)
(* get and cleared by every other step, so that in a state where it is set *)
(* now is the clock at which that get ran and lastSet is what it was when  *)
(* the get ran.                                                            *)
(***************************************************************************)
GotKey == getResult[1].key

GotResult == getResult[1].result

\* the get that has just run was on a key whose last set, not followed by a
\* set or del of that key, is recorded
GotAfterSet == getResult # None /\ lastSet[GotKey] # None

SetOfGot == lastSet[GotKey][1]

\* C9 (cache expiry): a get on a key last set with a ttl of more than 0
\* seconds, with no set or del of the key since, returns the value set when
\* it runs before the clock reaches (clock at the set) + ttl * 1000, and
\* returns null when it runs after the clock has passed that time.
C9_CacheExpiry ==
    (GotAfterSet /\ SetOfGot.ttl # None /\ SetOfGot.ttl[1] > 0) =>
        /\ now < SetOfGot.at + SetOfGot.ttl[1] * 1000 =>
              GotResult = Some(SetOfGot.value)
        /\ now > SetOfGot.at + SetOfGot.ttl[1] * 1000 =>
              GotResult = None

C9_Witness ==
    /\ GotAfterSet
    /\ SetOfGot.ttl = Some(1)
    /\ now = SetOfGot.at + 1001
    /\ GotResult = None

\* C10 as claimed (expiry boundary): a get on a key whose entry was stored
\* with a finite expiry time t returns null at every clock value now >= t,
\* now = t included.
C10_NullFromExpiryTime ==
    (GotAfterSet /\ SetOfGot.expires > 0 /\ now >= SetOfGot.expires) =>
        GotResult = None

\* C10 as amended: a get on a key whose entry was stored with a finite
\* expiry time t returns null at every clock value now > t, whether or not
\* the sweep has run since t; at now = t exactly the entry is still live, is
\* not removed by the sweep, and get returns its value.
C10_NullAfterExpiryTime ==
    (GotAfterSet /\ SetOfGot.expires > 0) =>
        /\ now > SetOfGot.expires => GotResult = None
        /\ now = SetOfGot.expires => GotResult = Some(SetOfGot.value)

C10_Witness ==
    /\ GotAfterSet
    /\ SetOfGot.expires > 0
    /\ now = SetOfGot.expires
    /\ GotResult = Some(SetOfGot.value)
    /\ nextSweep > StartClock + SweepIntervalMs

\* the arguments of a set decide the entry: a ttl that is omitted or falsy
\* means "never" (stored as 0), any other ttl means clock + ttl * 1000
TtlGiven(ttl) == ttl # None /\ ttl[1] # 0

EntryOfSet(s) ==
    [value |-> s.value,
     expires |-> IF TtlGiven(s.ttl) THEN s.at + s.ttl[1] * 1000 ELSE 0]

\* an entry of the Map whose finite expiry time lies in the past at time t
PastExpiry(slot, t) == slot # None /\ slot[1].expires > 0 /\ slot[1].expires < t

\* C11 (no-TTL persistence): after set(k, v) without a ttl argument, as long
\* as no del or set of k follows, the entry stays in the store unchanged at
\* every later clock value and after any number of sweeps and gets, every
\* get(k) returns v, and no get and no sweep ever removes an entry whose
\* expiry is "never".
C11_NoTtlPersistence ==
    /\ \A k \in Keys :
          (lastSet[k] # None /\ lastSet[k][1].ttl = None) =>
              store[k] = Some([value |-> lastSet[k][1].value, expires |-> 0])
    /\ (GotAfterSet /\ SetOfGot.ttl = None) => GotResult = Some(SetOfGot.value)
    /\ lastOp.op \in {"get", "sweep"} =>
          \A k \in lastOp.removed : lastSet[k] # None /\ lastSet[k][1].expires > 0

C11_Witness ==
    /\ GotAfterSet
    /\ SetOfGot.ttl = None
    /\ GotResult = Some(SetOfGot.value)
    /\ now >= SetOfGot.at + SweepIntervalMs
    /\ nextSweep > StartClock + SweepIntervalMs

\* C12 (cache replacement): the entry held for a key is exactly the one the
\* last set of that key describes, its value and its expiry both, whatever
\* entry the key held before; after a set without ttl that replaced an entry
\* with an expiry, get returns the new value at every later time.
C12_Replacement ==
    /\ \A k \in Keys :
          (lastSet[k] # None /\ store[k] # None) =>
              store[k] = Some(EntryOfSet(lastSet[k][1]))
    /\ lastOp.op = "set" =>
          /\ lastSet[lastOp.key] # None
          /\ store[lastOp.key] = Some(EntryOfSet(lastSet[lastOp.key][1]))
          /\ lastSet[lastOp.key][1].at = now

C12_Witness ==
    /\ lastOp.op = "set"
    /\ lastOp.key = "k1"
    /\ lastOp.was = "live"
    /\ lastSet["k1"][1].ttl = None
    /\ store["k1"] = Some([value |-> "v2", expires |-> 0])
    /\ now > StartClock

\* C13 (deletion idempotence): del(k) always leaves k absent and every other
\* key's entry as it was; on an absent key it leaves the whole store as it
\* was, so that a second del(k) changes nothing; a get of a key that was
\* deleted (or never set) returns null.
C13_DeletionIdempotent ==
    /\ [][\A k \in Keys : del(k) =>
              /\ store'[k] = None
              /\ \A j \in Keys \ {k} : store'[j] = store[j]
              /\ store[k] = None => store' = store]_vars
    /\ []((getResult # None /\ lastSet[GotKey] = None) => GotResult = None)

C13_Witness ==
    /\ lastOp.op = "del"
    /\ lastOp.key = "k1"
    /\ lastOp.removed = {"k1"}
    /\ store["k1"] = None
    /\ store["k2"] # None

\* C14 (sweep and lazy check agree): a get on a key whose entry is still in
\* the store although its expiry time has passed returns null, and a get
\* never returns the value of an entry that a sweep run at the same instant
\* would delete.
C14_SweepAndLazyAgree ==
    [][\A k \in Keys : get(k) =>
          /\ PastExpiry(store[k], now) => getResult'[1].result = None
          /\ (store[k] # None /\ Swept(store, now)[k] = None) =>
                getResult'[1].result = None]_vars

C14_Witness ==
    /\ lastOp.op = "get"
    /\ lastOp.was = "due"
    /\ lastOp.removed = {lastOp.key}
    /\ getResult = Some([key |-> lastOp.key, result |-> None])
    /\ now >= nextSweep

\* C15 (lazy eviction on read): a get on a key whose entry is expired deletes
\* that entry, returns null and leaves every other entry as it was; a get on
\* a live or absent key leaves the store as it was.
C15_LazyEviction ==
    [][\A k \in Keys : get(k) =>
          IF PastExpiry(store[k], now)
          THEN /\ store'[k] = None
               /\ getResult'[1].result = None
               /\ \A j \in Keys \ {k} : store'[j] = store[j]
          ELSE store' = store]_vars

C15_Witness ==
    /\ lastOp.op = "get"
    /\ lastOp.key = "k1"
    /\ lastOp.removed = {"k1"}
    /\ store["k1"] = None
    /\ store["k2"] # None
    /\ getResult = Some([key |-> "k1", result |-> None])

\* C16 (TTL assignment): a set with an omitted or falsy ttl stores an entry
\* that never expires; a set with any other ttl stores the expiry time
\* clock + ttl * 1000, and the entry is time-bounded: a get after that time
\* returns null.
C16_TtlAssignment ==
    /\ \A k \in Keys :
          lastSet[k] # None =>
              lastSet[k][1].expires = EntryOfSet(lastSet[k][1]).expires
    /\ (GotAfterSet /\ ~TtlGiven(SetOfGot.ttl)) => GotResult = Some(SetOfGot.value)
    /\ (GotAfterSet /\ TtlGiven(SetOfGot.ttl)
          /\ now > SetOfGot.at + SetOfGot.ttl[1] * 1000) => GotResult = None

\* C19 (cache disposal): once the adapter has been disposed of, the periodic
\* sweep never runs again.
C19_NoSweepAfterDisposal ==
    [][released => ~Sweep]_vars

\* C20 (sweep effect): one run of the sweep removes every entry whose finite
\* expiry time lies in the past at the moment of the run and leaves every
\* other entry (expiry "never", or not yet passed) exactly as it was; it adds
\* and modifies nothing.
C20_SweepEffect ==
    [][Sweep =>
          \A k \in Keys :
              store'[k] = IF PastExpiry(store[k], now) THEN None ELSE store[k]]_vars

C20_Witness ==
    /\ lastOp.op = "sweep"
    /\ lastOp.removed = {"k1"}
    /\ store["k1"] = None
    /\ store["k2"] = Some([value |-> "v1", expires |-> 0])

\* C21 (sweep is unobservable through get): a cache whose sweep runs at
\* arbitrary points and a cache that receives the same calls at the same
\* clock values and is never swept resolve every get with the same result,
\* and their stores differ only in entries the second still holds although
\* their expiry time has passed.
C21_SweepUnobservable ==
    /\ getResult # None => refResult = Some(GotResult)
    /\ \A k \in Keys :
          store[k] # refStore[k] =>
              store[k] = None /\ PastExpiry(refStore[k], now)

C21_Witness ==
    /\ getResult # None
    /\ GotKey = "k2"
    /\ GotResult = Some("v1")
    /\ refResult = Some(Some("v1"))
    /\ store["k1"] = None
    /\ refStore["k1"] # None
    /\ lastSet["k2"][1].ttl = Some(1)

\* the life-cycle state of the entry of a key at time t
EntryState(slot, t) ==
    IF slot = None THEN "Absent"
    ELSE IF PastExpiry(slot, t) THEN "Expired"
    ELSE "Live"

\* the step taken is the operation o on key k
StepOn(o, k) == lastOp'.op = o /\ lastOp'.key = k

\* what the claim and its amendment share: who may create an entry, who may
\* remove one, and that get, set and del touch the entry of their key only
LifeCycleFrame(k) ==
    LET a == EntryState(store[k], now)
        b == EntryState(store'[k], now')
    IN  /\ (a = "Absent" /\ b # "Absent") => StepOn("set", k)
        /\ (a # "Absent" /\ b = "Absent") =>
              \/ StepOn("del", k)
              \/ a = "Expired" /\ StepOn("get", k)
              \/ a = "Expired" /\ lastOp'.op = "sweep"
        /\ (a = "Expired" /\ b = "Live") => StepOn("set", k)
        /\ (lastOp'.op \in {"get", "set", "del"} /\ lastOp'.key # k) =>
              store'[k] = store[k]

\* C22 as claimed (entry life cycle): Absent -> Live only by set; a Live
\* entry with a finite expiry becomes Expired only by the passage of time; an
\* entry becomes Absent only by del, by a get on it while Expired or by a
\* sweep while Expired; set on any entry yields a Live entry; get, set and del
\* on one key leave the entries of the other keys as they were.
C22_LifeCycleAsClaimed ==
    [][\A k \in Keys :
          LET a == EntryState(store[k], now)
              b == EntryState(store'[k], now')
          IN  /\ LifeCycleFrame(k)
              /\ (a = "Live" /\ b = "Expired") =>
                    now' > now /\ store'[k] = store[k]
              /\ StepOn("set", k) => b = "Live"]_vars

\* C22 as amended: as claimed, except that a set whose ttl is negative may
\* store an entry that is Expired at once (its expiry time, clock + ttl *
\* 1000, is positive and already past); a set with an omitted, falsy or
\* positive ttl always yields a Live entry, and apart from such a set a Live
\* entry becomes Expired only by the passage of time.
C22_LifeCycle ==
    [][\A k \in Keys :
          LET a == EntryState(store[k], now)
              b == EntryState(store'[k], now')
              negative == /\ lastSet'[k] # None
                          /\ lastSet'[k][1].ttl # None
                          /\ lastSet'[k][1].ttl[1] < 0
          IN  /\ LifeCycleFrame(k)
              /\ (a = "Live" /\ b = "Expired") =>
                    \/ now' > now /\ store'[k] = store[k]
                    \/ StepOn("set", k) /\ negative
              /\ StepOn("set", k) =>
                    /\ b # "Absent"
                    /\ ~negative => b = "Live"
                    /\ b = "Expired" <=>
                          (negative /\ now + lastSet'[k][1].ttl[1] * 1000 > 0)]_vars

\* a set with a negative ttl has just replaced a Live entry by one that is
\* Expired at once
C22_Witness ==
    /\ lastOp.op = "set"
    /\ lastOp.key = "k1"
    /\ lastOp.was \in {"live", "never"}
    /\ lastSet["k1"][1].ttl = Some(-3)
    /\ EntryState(store["k1"], now) = "Expired"

\* C23 (atomic cache steps): under every interleaving of sweeps with get,
\* set and del, the entry held for a key is the value of the most recent
\* set of that key together with that same set's expiry, and every get
\* resolves with null or with the value of the most recent set of its key,
\* in which case that set's expiry has not passed.
C23_AtomicSteps ==
    /\ \A k \in Keys :
          store[k] # None =>
              /\ lastSet[k] # None
              /\ store[k][1].value = lastSet[k][1].value
              /\ store[k][1].expires = lastSet[k][1].expires
    /\ (getResult # None /\ GotResult # None) =>
          /\ lastSet[GotKey] # None
          /\ GotResult = Some(SetOfGot.value)
          /\ ~(SetOfGot.expires > 0 /\ SetOfGot.expires < now)
          /\ store[GotKey] = Some([value |-> SetOfGot.value,
                                   expires |-> SetOfGot.expires])

C23_Witness ==
    /\ GotAfterSet
    /\ GotResult = Some("v2")
    /\ SetOfGot.expires > StartClock + SweepIntervalMs
    /\ nextSweep > StartClock + SweepIntervalMs
    /\ store[GotKey] = Some([value |-> "v2", expires |-> SetOfGot.expires])

\* C28 (nested wrapping multiplies attempts): on a transport wrapped with
\* maxRetries m1 and then again with m2, a call never invokes the original
\* method more than (m1 + 1) * (m2 + 1) times, and a call that has thrown
\* after the original failed with a retryable error (500 or 429) on every
\* invocation has invoked it exactly (m1 + 1) * (m2 + 1) times, the inner
\* loop having been run m2 + 1 times; this exceeds m2 + 1, the bound for a
\* transport wrapped once, as soon as m1 > 0.
C28_NestedWrapping ==
    /\ nest.originals <= (nest.m1 + 1) * (nest.m2 + 1)
    /\ nest.innerCalls <= nest.m2 + 1
    /\ (nest.pc = "thrown" /\ nest.seen # {}
          /\ nest.seen \subseteq {NumErr(500), NumErr(429)}) =>
          /\ nest.originals = (nest.m1 + 1) * (nest.m2 + 1)
          /\ nest.innerCalls = nest.m2 + 1
          /\ nest.outcome.err \in nest.seen

C28_Witness ==
    /\ nest.pc = "thrown"
    /\ nest.m1 = 1
    /\ nest.m2 = 2
    /\ nest.seen = {NumErr(500)}
    /\ nest.originals = 6
    /\ nest.originals > nest.m2 + 1
    /\ nest.outcome = Threw(NumErr(500))

\* C29 (interaction error wrapper): when a wrapped interaction method has
\* thrown, the wrapper has logged the error, at most one attempt to send the
\* user-facing message is ever made, and the caller receives the original
\* error; when sending the message itself has failed the handling has ended:
\* that failure has only been logged and the original error rethrown.
C29_ErrorWrapper ==
    ix.wrapped =>
        /\ ix.sends <= 1
        /\ ix.stack # <<>> => ix.logged >= 1
        /\ Len(ix.stack) >= 2 =>
              /\ ix.pc = "thrown"
              /\ ix.sendFailures = 1
        /\ ix.pc = "thrown" =>
              ix.outcome = [kind |-> "thrown", err |-> ix.stack[1]]

\* the interaction being handled is a chat-input one whose command has a guard
Guarded == cmd.name # "" /\ Commands[cmd.name]

\* what the claim and its amendment share: the guard is awaited to
\* completion before run starts, run is invoked only after the guard
\* resolved to exactly true, and after any other result the first reply is
\* an ephemeral one carrying the guard's string, or 'Access denied' when the
\* result is not a string
GuardGate ==
    Guarded =>
        /\ cmd.pc = "guard" => cmd.runs = 0 /\ cmd.guardResult = None
        /\ cmd.runs > 0 =>
              /\ cmd.guardResult = Some(<<"boolean", TRUE>>)
              /\ cmd.runs = 1
        /\ (cmd.guardResult # None /\ cmd.guardResult # Some(<<"boolean", TRUE>>)) =>
              /\ cmd.runs = 0
              /\ cmd.pc # "run"
              /\ Len(cmd.attempts) >= 1
              /\ cmd.attempts[1] =
                    [method |-> "reply",
                     content |-> IF cmd.guardResult[1][1] = "string"
                                 THEN cmd.guardResult[1][2] ELSE "Access denied",
                     ephemeral |-> TRUE]

\* C30 as claimed (guard before run): GuardGate, and after a guard result
\* other than true the interaction receives exactly one reply, the denial.
C30_GuardBeforeRunAsClaimed ==
    /\ GuardGate
    /\ (Guarded /\ cmd.guardResult # None
          /\ cmd.guardResult # Some(<<"boolean", TRUE>>)) =>
          /\ Len(cmd.attempts) = 1
          /\ cmd.pc \in {"done", "rejected"} => cmd.delivered = cmd.attempts

\* C30 as amended: GuardGate, and after a guard result other than true the
\* denial is the only reply when it is delivered; when the denial reply
\* fails the failure is logged and one more message, the generic error
\* message, is attempted (by editReply when the interaction had been replied
\* to or deferred, else by an ephemeral reply), so that the interaction
\* receives at most one message, the denial or else the error message.
C30_GuardBeforeRun ==
    /\ GuardGate
    /\ (Guarded /\ cmd.guardResult # None
          /\ cmd.guardResult # Some(<<"boolean", TRUE>>)) =>
          /\ Len(cmd.attempts) <= 2
          /\ Len(cmd.delivered) <= 1
          /\ cmd.pc = "denying" => Len(cmd.attempts) = 1 /\ cmd.delivered = <<>>
          /\ cmd.pc = "done" =>
                cmd.delivered = <<cmd.attempts[Len(cmd.attempts)]>>
          /\ Len(cmd.attempts) = 2 =>
                /\ cmd.logged >= 1
                /\ cmd.attempts[2].content =
                      "An error occurred while executing this command."
                /\ cmd.attempts[2].method = IF cmd.acked THEN "editReply" ELSE "reply"
                /\ cmd.attempts[2].method = "reply" => cmd.attempts[2].ephemeral
                /\ cmd.pc \in {"reporting", "done", "rejected"}
          /\ cmd.pc = "rejected" => Len(cmd.attempts) = 2 /\ cmd.delivered = <<>>

\* a denial was delivered: the guard resolved with a string, run was not
\* invoked, and the one reply carries that string
C30_Witness ==
    /\ cmd.name = "admin"
    /\ cmd.pc = "done"
    /\ cmd.guardResult = Some(<<"string", "Not allowed">>)
    /\ cmd.runs = 0
    /\ cmd.delivered = <<[method |-> "reply", content |-> "Not allowed",
                          ephemeral |-> TRUE]>>

====
